---- MODULE Spec2Model ----
(***************************************************************************)
(* Salary dashboard (src/app.py): a Streamlit script.  Every user          *)
(* interaction re-executes the whole script from its first line: load the  *)
(* CSV, read the sidebar widgets, filter, compute the metrics and the      *)
(* aggregates, render.  One action of the model is one execution of the    *)
(* script, started either by opening the page or by changing a widget.     *)
(*                                                                         *)
(* Salaries are integers; a mean is the exact fraction [num, den] (the     *)
(* code uses binary floating point, whose rounding is not modelled).       *)
(* Chart styling and the histogram-bin slider, which only feed the         *)
(* charting library, are represented by the name of the rendered element.  *)
(***************************************************************************)
EXTENDS Integers, Sequences, FiniteSets

VARIABLES
    remote,                     \* the CSV resource behind the fixed URL
    build,                      \* behaviour of the library's default (unstable) sort on ties
    fase,                       \* "nova": page not opened yet; "ativa": the script has run
    fetches,                    \* network reads of the CSV made in this session
    df,                         \* the loaded table
    anos_selecionados,
    senioridades_selecionadas,
    contratos_selecionados,
    tamanhos_selecionados,
    top_n_cargos,
    hist_bins,
    df_filtrado,
    salario_medio,
    salario_maximo,
    total_registros,
    cargo_mais_frequente,
    top_cargos,
    media_global,
    df_anim,
    rendered,                   \* elements the last execution put on the page
    erro,                       \* "nenhum", "carga", or the column whose lookup raised
    primeira_execucao           \* history: view and aggregates of the session's first execution

vars == <<remote, build, fase, fetches, df, anos_selecionados,
          senioridades_selecionadas, contratos_selecionados,
          tamanhos_selecionados, top_n_cargos, hist_bins, df_filtrado,
          salario_medio,
          salario_maximo, total_registros, cargo_mais_frequente, top_cargos,
          media_global, df_anim, rendered, erro, primeira_execucao>>

----------------------------------------------------------------------------
(* Bounds of the model *)

MaxFetches == 3
MaxLinhas == 3
MaxLinhasTop == 7
MaxLinhasDS == 4

(* Program constants: the two sliders *)

TopNMin == 5
TopNMax == 20
TopNPadrao == 10
HistBinsMin == 10
HistBinsMax == 50
HistBinsPadrao == 30

\* Slider positions the modelled user moves to: the two lowest and the default.
OpcoesTopN == {n \in TopNMin..TopNMax : n <= TopNMin + 1 \/ n = TopNPadrao}

\* Positions of the bins slider the modelled user moves to.
OpcoesHistBins == {b \in HistBinsMin..HistBinsMax : b = HistBinsMin \/ b = HistBinsPadrao}

Colunas == {"ano", "senioridade", "contrato", "tamanho_empresa", "cargo",
            "remoto", "usd", "residencia_iso3"}

Graficos == {"grafico_top", "grafico_hist", "grafico_remoto", "grafico_pais"}

----------------------------------------------------------------------------
(* Exact fractions *)

Rat(n, d) == [num |-> n, den |-> d]
RatEq(a, b) == a.num * b.den = b.num * a.den
RatLt(a, b) == a.num * b.den < b.num * a.den
RatLe(a, b) == a.num * b.den <= b.num * a.den
RatSub(a, b) == [num |-> a.num * b.den - b.num * a.den, den |-> a.den * b.den]
RatAdd(a, b) == [num |-> a.num * b.den + b.num * a.den, den |-> a.den * b.den]

----------------------------------------------------------------------------
(* Dataframe primitives *)

\* df[col].unique(); sorted() only fixes the order the options are shown in.
Unicos(t, col) == {t[i][col] : i \in DOMAIN t}

RECURSIVE SomaUsd(_)
SomaUsd(t) == IF t = <<>> THEN 0 ELSE Head(t).usd + SomaUsd(Tail(t))

\* Series.mean() of the usd column of a non-empty table.
Media(t) == Rat(SomaUsd(t), Len(t))

\* Series.max() of the usd column of a non-empty table.
Maximo(t) == CHOOSE m \in Unicos(t, "usd") : \A u \in Unicos(t, "usd") : u <= m

\* Python's order on the role names that occur (str.__lt__).
OrdemAlfabetica == <<"BI Developer", "Data Analyst", "Data Engineer",
                     "Data Scientist", "ML Engineer", "Research Scientist">>
Rank(c) == CHOOSE i \in DOMAIN OrdemAlfabetica : OrdemAlfabetica[i] = c

RECURSIVE Inserir(_, _, _, _)
Inserir(r, s, asc, estavel) ==
    IF s = <<>> THEN <<r>>
    ELSE LET h == Head(s)
             antes == IF asc THEN RatLt(r.usd, h.usd) ELSE RatLt(h.usd, r.usd)
             empate == RatEq(r.usd, h.usd)
         IN IF antes \/ (empate /\ ~estavel)
            THEN <<r>> \o s
            ELSE <<h>> \o Inserir(r, Tail(s), asc, estavel)

\* sort_values('usd', ascending=asc).  A stable sort keeps tied rows in their
\* input order; the default kind is not stable, and `estavel` = FALSE is the
\* outcome that reverses every tie.
RECURSIVE Ordenar(_, _, _)
Ordenar(s, asc, estavel) ==
    IF s = <<>> THEN <<>>
    ELSE Inserir(s[Len(s)], Ordenar(SubSeq(s, 1, Len(s) - 1), asc, estavel),
                 asc, estavel)

----------------------------------------------------------------------------
(* Filtragem do DataFrame *)

\* The query applied to the view the previous execution left.
FonteAnterior(carregado, vista_anterior) == vista_anterior

\* The table line 35 queries: the table loaded by this execution.
FonteDoFiltro(carregado, vista_anterior) == carregado

\* The query with the company-size condition left out.
FiltrarSemTamanho(t, anos, senioridades, contratos, tamanhos) ==
    SelectSeq(t, LAMBDA r : /\ r.ano \in anos
                            /\ r.senioridade \in senioridades
                            /\ r.contrato \in contratos)

\* df.query("ano in @anos_selecionados and senioridade in ... ").
Filtrar(t, anos, senioridades, contratos, tamanhos) ==
    SelectSeq(t, LAMBDA r : /\ r.ano \in anos
                            /\ r.senioridade \in senioridades
                            /\ r.contrato \in contratos
                            /\ r.tamanho_empresa \in tamanhos)

----------------------------------------------------------------------------
(* Métricas gerais *)

LinhasDoCargo(t, c) == SelectSeq(t, LAMBDA r : r.cargo = c)

PrimeiraPosicao(t, c) == CHOOSE i \in DOMAIN t :
                            t[i].cargo = c /\ \A j \in 1..(i - 1) : t[j].cargo # c

\* df_filtrado['cargo'].value_counts().idxmax(): value_counts lists the roles
\* in order of first appearance and sorts them by count, descending, with the
\* default sort; idxmax takes the first row of the highest count.
CargoMaisFrequente(t, estavel) ==
    LET cargos == Unicos(t, "cargo")
        n(c) == Len(LinhasDoCargo(t, c))
        modas == {c \in cargos : \A d \in cargos : n(d) <= n(c)}
    IN CHOOSE c \in modas : \A d \in modas :
          IF estavel THEN PrimeiraPosicao(t, c) <= PrimeiraPosicao(t, d)
                     ELSE PrimeiraPosicao(t, c) >= PrimeiraPosicao(t, d)

Metricas(t, estavel) ==
    IF t # <<>>
    THEN [salario_medio |-> Media(t),
          salario_maximo |-> Maximo(t),
          total_registros |-> Len(t),
          cargo_mais_frequente |-> CargoMaisFrequente(t, estavel)]
    ELSE [salario_medio |-> Rat(0, 1),
          salario_maximo |-> 0,
          total_registros |-> 0,
          cargo_mais_frequente |-> ""]

----------------------------------------------------------------------------
(* Top cargos *)

RECURSIVE PorChave(_)
PorChave(S) ==
    IF S = {} THEN <<>>
    ELSE LET m == CHOOSE c \in S : \A d \in S : Rank(c) <= Rank(d)
         IN <<m>> \o PorChave(S \ {m})

RECURSIVE PorEncontro(_, _)
PorEncontro(t, vistos) ==
    IF t = <<>> THEN <<>>
    ELSE IF Head(t).cargo \in vistos THEN PorEncontro(Tail(t), vistos)
    ELSE <<Head(t).cargo>> \o PorEncontro(Tail(t), vistos \cup {Head(t).cargo})

\* groupby(..., sort=False): the groups in order of first appearance.
SalarioCargoSemOrdenar(t) ==
    LET chaves == PorEncontro(t, {})
    IN [i \in DOMAIN chaves |->
           [cargo |-> chaves[i], usd |-> Media(LinhasDoCargo(t, chaves[i]))]]

\* df_filtrado.groupby('cargo')['usd'].mean().reset_index(): one row per
\* role, the rows in the sorted order of the group keys.
SalarioCargo(t) ==
    LET chaves == PorChave(Unicos(t, "cargo"))
    IN [i \in DOMAIN chaves |->
           [cargo |-> chaves[i], usd |-> Media(LinhasDoCargo(t, chaves[i]))]]

\* nlargest keeping one row too many.
NLargestUmAMais(s, n, estavel) ==
    IF n >= Len(s)
    THEN Ordenar(s, FALSE, estavel)
    ELSE SubSeq(Ordenar(s, FALSE, TRUE), 1, n + 1)

\* salario_cargo.nlargest(n, 'usd') with keep='first': when n covers the
\* frame, a descending sort of the default kind; otherwise the first n rows
\* of a stable descending sort.
NLargest(s, n, estavel) ==
    IF n >= Len(s)
    THEN Ordenar(s, FALSE, estavel)
    ELSE SubSeq(Ordenar(s, FALSE, TRUE), 1, n)

\* The final sort_values with ascending=False.
TopCargosDecrescente(t, n, estavel) ==
    Ordenar(NLargest(SalarioCargo(t), n, estavel), FALSE, estavel)

TopCargos(t, n, estavel) ==
    Ordenar(NLargest(SalarioCargo(t), n, estavel), TRUE, estavel)

----------------------------------------------------------------------------
(* Seção Cientistas de Dados *)

DfDs(t) == SelectSeq(t, LAMBDA r : r.cargo = "Data Scientist")

BRA == <<"B", "R", "A">>
USA == <<"U", "S", "A">>
XXX == <<"X", "X", "X">>

\* pycountry.countries.get(alpha_3=code): the reference table, as far as the
\* codes of the model need it.
Paises == [c \in {BRA, USA} |->
             IF c = BRA
             THEN [name |-> <<"B", "r", "a", "z", "i", "l">>, alpha_2 |-> <<"B", "R">>]
             ELSE [name |-> <<"U", "n", "i", "t", "e", "d", " ", "S", "t", "a", "t", "e", "s">>,
                   alpha_2 |-> <<"U", "S">>]]

obter_pais_info(code) ==
    IF code \in DOMAIN Paises
    THEN <<Paises[code].name, Paises[code].alpha_2>>
    ELSE <<code, SubSeq(code, 1, 2)>>

\* One mean over all the years for every year.
MediaGlobalUnica(ds) == [a \in Unicos(ds, "ano") |-> Media(ds)]

RECURSIVE SomaRat(_)
SomaRat(s) == IF s = <<>> THEN Rat(0, 1) ELSE RatAdd(Head(s), SomaRat(Tail(s)))

RECURSIVE EmSequencia(_)
EmSequencia(S) ==
    IF S = {} THEN <<>>
    ELSE LET x == CHOOSE y \in S : TRUE IN <<x>> \o EmSequencia(S \ {x})

\* The year's mean taken as the plain mean of the country means.
MediaGlobalNaoPonderada(ds) ==
    [a \in Unicos(ds, "ano") |->
        LET doAno == SelectSeq(ds, LAMBDA r : r.ano = a)
            paises == EmSequencia(Unicos(doAno, "residencia_iso3"))
            medias == [i \in DOMAIN paises |->
                          Media(SelectSeq(doAno, LAMBDA r : r.residencia_iso3 = paises[i]))]
            soma == SomaRat(medias)
        IN Rat(soma.num, soma.den * Len(paises))]

\* df_ds.groupby('ano')['usd'].mean().to_dict()
MediaGlobal(ds) ==
    [a \in Unicos(ds, "ano") |-> Media(SelectSeq(ds, LAMBDA r : r.ano = a))]

\* df_anim after line 140, as the set of its rows: one row per (ano,
\* residencia_iso3) group of df_ds.  Line 127 orders the rows with the default
\* sort; the order of the rows is not part of the model.
DfAnim(ds, mg) ==
    LET grupos == {<<ds[i].ano, ds[i].residencia_iso3>> : i \in DOMAIN ds}
        linhas(g) == SelectSeq(ds, LAMBDA r : r.ano = g[1] /\ r.residencia_iso3 = g[2])
    IN {[ano |-> g[1],
         residencia_iso3 |-> g[2],
         usd |-> Media(linhas(g)),
         pais_full |-> obter_pais_info(g[2])[1],
         pais_abrev |-> obter_pais_info(g[2])[2],
         cor |-> RatSub(Media(linhas(g)), mg[g[1]])] : g \in grupos}

----------------------------------------------------------------------------
(* One execution of the script *)

El(nome) == <<"el", nome>>
Col(nome) == <<"col", nome>>

\* The script with the charts block (line 76) not guarded by the emptiness test.
RoteiroSemGuarda(vazio, ds_vazio) ==
    <<El("cabecalho_filtros"),
      Col("ano"), El("filtro_ano"),
      Col("senioridade"), El("filtro_senioridade"),
      Col("contrato"), El("filtro_contrato"),
      Col("tamanho_empresa"), El("filtro_tamanho"),
      El("slider_top_n"), El("slider_bins"),
      El("titulo"), El("subheader_metricas")>>
    \o (IF ~vazio THEN <<Col("usd"), Col("cargo")>> ELSE <<>>)
    \o <<El("metricas"),
         El("grafico_top"), El("grafico_hist"),
         Col("remoto"), El("grafico_remoto")>>
    \o (IF ~vazio
        THEN <<El("subheader_ds")>>
             \o (IF ~ds_vazio
                 THEN <<Col("residencia_iso3"), El("grafico_pais")>>
                 ELSE <<>>)
        ELSE <<>>)
    \o <<El("tabela")>>

\* The script from line 19 on, in execution order: the elements it puts on
\* the page and the first lookup of each column (df['x'] raises KeyError when
\* the CSV has no column x, which ends the execution there).
Roteiro(vazio, ds_vazio) ==
    <<El("cabecalho_filtros"),
      Col("ano"), El("filtro_ano"),
      Col("senioridade"), El("filtro_senioridade"),
      Col("contrato"), El("filtro_contrato"),
      Col("tamanho_empresa"), El("filtro_tamanho"),
      El("slider_top_n"), El("slider_bins"),
      El("titulo"), El("subheader_metricas")>>
    \o (IF ~vazio THEN <<Col("usd"), Col("cargo")>> ELSE <<>>)
    \o <<El("metricas")>>
    \o (IF ~vazio
        THEN <<El("grafico_top"), El("grafico_hist"),
               Col("remoto"), El("grafico_remoto"),
               El("subheader_ds")>>
             \o (IF ~ds_vazio
                 THEN <<Col("residencia_iso3"), El("grafico_pais")>>
                 ELSE <<>>)
        ELSE <<>>)
    \o <<El("tabela")>>

\* Position of the first lookup of a missing column; past the end when none.
PrimeiraFalha(ev, cols) ==
    LET falhas == {i \in DOMAIN ev : ev[i][1] = "col" /\ ev[i][2] \notin cols}
    IN IF falhas = {} THEN Len(ev) + 1
       ELSE CHOOSE i \in falhas : \A j \in falhas : i <= j

\* The whole script.  `inicial`: the widgets have no session state yet and
\* take their defaults; otherwise the arguments are the widgets' values.
Rodar(inicial, anos, senioridades, contratos, tamanhos, n, bins) ==
    /\ fase' = "ativa"
    /\ fetches' = fetches + 1
    /\ UNCHANGED <<remote, build>>
    /\ IF ~remote.ok
       THEN /\ df' = <<>>
            /\ anos_selecionados' = {}
            /\ senioridades_selecionadas' = {}
            /\ contratos_selecionados' = {}
            /\ tamanhos_selecionados' = {}
            /\ top_n_cargos' = TopNPadrao
            /\ hist_bins' = HistBinsPadrao
            /\ df_filtrado' = <<>>
            /\ salario_medio' = Rat(0, 1)
            /\ salario_maximo' = 0
            /\ total_registros' = 0
            /\ cargo_mais_frequente' = ""
            /\ top_cargos' = <<>>
            /\ media_global' = <<>>
            /\ df_anim' = {}
            /\ rendered' = {}
            /\ erro' = "carga"
            /\ primeira_execucao' = IF inicial THEN <<<<>>, <<>>, {}>> ELSE primeira_execucao
       ELSE LET d == remote.rows
                estavel == build = "estavel"
                sa == IF inicial THEN Unicos(d, "ano") ELSE anos
                ss == IF inicial THEN Unicos(d, "senioridade") ELSE senioridades
                sc == IF inicial THEN Unicos(d, "contrato") ELSE contratos
                st == IF inicial THEN Unicos(d, "tamanho_empresa") ELSE tamanhos
            IN \E vista \in {Filtrar(FonteDoFiltro(d, df_filtrado), sa, ss, sc, st)} :
               \E ds \in {DfDs(vista)} :
               \E ev \in {Roteiro(vista = <<>>, ds = <<>>)} :
               \E falha \in {PrimeiraFalha(ev, remote.cols)} :
               \E feitos \in {{ev[i][2] : i \in {j \in 1..(falha - 1) : ev[j][1] = "el"}}} :
               \E m \in {IF "metricas" \in feitos THEN Metricas(vista, estavel)
                         ELSE Metricas(<<>>, estavel)} :
               \E mg \in {IF "grafico_pais" \in feitos THEN MediaGlobal(ds) ELSE <<>>} :
               \E top \in {IF "grafico_top" \in feitos
                           THEN TopCargos(vista, n, estavel) ELSE <<>>} :
               \E anim \in {IF "grafico_pais" \in feitos THEN DfAnim(ds, mg) ELSE {}} :
               \E fv \in {IF "titulo" \in feitos THEN vista ELSE <<>>} :
               /\ df' = d
               /\ anos_selecionados' = IF "filtro_ano" \in feitos THEN sa ELSE {}
               /\ senioridades_selecionadas' =
                      IF "filtro_senioridade" \in feitos THEN ss ELSE {}
               /\ contratos_selecionados' =
                      IF "filtro_contrato" \in feitos THEN sc ELSE {}
               /\ tamanhos_selecionados' =
                      IF "filtro_tamanho" \in feitos THEN st ELSE {}
               /\ top_n_cargos' = IF "slider_top_n" \in feitos THEN n ELSE TopNPadrao
               /\ hist_bins' = IF "slider_bins" \in feitos THEN bins ELSE HistBinsPadrao
               /\ df_filtrado' = fv
               /\ salario_medio' = m.salario_medio
               /\ salario_maximo' = m.salario_maximo
               /\ total_registros' = m.total_registros
               /\ cargo_mais_frequente' = m.cargo_mais_frequente
               /\ top_cargos' = top
               /\ media_global' = mg
               /\ df_anim' = anim
               /\ rendered' = feitos
               /\ erro' = IF falha > Len(ev) THEN "nenhum" ELSE ev[falha][2]
               /\ primeira_execucao' = IF inicial THEN <<fv, top, anim>>
                                        ELSE primeira_execucao

\* A multiselect click adds the option or removes it.
Alternar(S, v) == IF v \in S THEN S \ {v} ELSE S \cup {v}

PodeInteragir(widget) ==
    /\ fase = "ativa"
    /\ widget \in rendered
    /\ fetches < MaxFetches

----------------------------------------------------------------------------
(* Actions *)

AbrirPagina ==
    /\ fase = "nova"
    /\ Rodar(TRUE, {}, {}, {}, {}, TopNPadrao, HistBinsPadrao)

AlterarAno(v) ==
    /\ PodeInteragir("filtro_ano")
    /\ Rodar(FALSE, Alternar(anos_selecionados, v), senioridades_selecionadas,
             contratos_selecionados, tamanhos_selecionados, top_n_cargos, hist_bins)

AlterarSenioridade(v) ==
    /\ PodeInteragir("filtro_senioridade")
    /\ Rodar(FALSE, anos_selecionados, Alternar(senioridades_selecionadas, v),
             contratos_selecionados, tamanhos_selecionados, top_n_cargos, hist_bins)

AlterarContrato(v) ==
    /\ PodeInteragir("filtro_contrato")
    /\ Rodar(FALSE, anos_selecionados, senioridades_selecionadas,
             Alternar(contratos_selecionados, v), tamanhos_selecionados,
             top_n_cargos, hist_bins)

AlterarTamanho(v) ==
    /\ PodeInteragir("filtro_tamanho")
    /\ Rodar(FALSE, anos_selecionados, senioridades_selecionadas,
             contratos_selecionados, Alternar(tamanhos_selecionados, v),
             top_n_cargos, hist_bins)

AlterarTopN(n) ==
    /\ PodeInteragir("slider_top_n")
    /\ n # top_n_cargos
    /\ Rodar(FALSE, anos_selecionados, senioridades_selecionadas,
             contratos_selecionados, tamanhos_selecionados, n, hist_bins)

AlterarHistBins(b) ==
    /\ PodeInteragir("slider_bins")
    /\ b # hist_bins
    /\ Rodar(FALSE, anos_selecionados, senioridades_selecionadas,
             contratos_selecionados, tamanhos_selecionados, top_n_cargos, b)

Next ==
    \/ AbrirPagina
    \/ \E v \in Unicos(df, "ano") : AlterarAno(v)
    \/ \E v \in Unicos(df, "senioridade") : AlterarSenioridade(v)
    \/ \E v \in Unicos(df, "contrato") : AlterarContrato(v)
    \/ \E v \in Unicos(df, "tamanho_empresa") : AlterarTamanho(v)
    \/ \E n \in OpcoesTopN : AlterarTopN(n)
    \/ \E b \in OpcoesHistBins : AlterarHistBins(b)

----------------------------------------------------------------------------
(* Input tables *)

Linha(a, s, c, t, cargo, remoto, usd, iso) ==
    [ano |-> a, senioridade |-> s, contrato |-> c, tamanho_empresa |-> t,
     cargo |-> cargo, remoto |-> remoto, usd |-> usd, residencia_iso3 |-> iso]

\* Values of the four filter columns a row of the general tables takes.
Perfis == {<<2022, "junior", "integral", "pequena">>,
           <<2022, "senior", "parcial", "grande">>,
           <<2023, "junior", "parcial", "grande">>,
           <<2023, "senior", "integral", "grande">>}

LinhaGeral(i, p) ==
    Linha(p[1], p[2], p[3], p[4],
          IF i % 2 = 1 THEN "Data Scientist" ELSE "Data Engineer",
          IF i % 2 = 1 THEN "remoto" ELSE "presencial",
          100 * i, BRA)

\* Tables of up to MaxLinhas rows, each row with any of the profiles.
TabelasGerais ==
    UNION {{[i \in 1..n |-> LinhaGeral(i, f[i])] : f \in [1..n -> Perfis]} :
           n \in 0..MaxLinhas}

\* Roles in the order the rows of the role tables first show them.
CargosTop == <<"Data Scientist", "BI Developer", "Research Scientist",
               "Data Analyst", "ML Engineer", "Data Engineer">>

\* Tables of MaxLinhasTop rows over the six roles: the k-th role earns 100k
\* or 100(k+1), so that neighbouring roles can tie.
TabelasTop ==
    {[i \in 1..MaxLinhasTop |->
         LET k == ((i - 1) % Len(CargosTop)) + 1
         IN Linha(2022, "junior", "integral", "pequena", CargosTop[k], "remoto",
                  100 * (k + u[i]), BRA)] : u \in [1..MaxLinhasTop -> {0, 1}]}

\* Tables of MaxLinhasDS rows, all but the second of Data Scientists, with any
\* year and any country in each row.
TabelasDS ==
    {[i \in 1..MaxLinhasDS |->
         Linha(g[i][1], "junior", "integral", "pequena",
               IF i = 2 THEN "Data Engineer" ELSE "Data Scientist",
               "remoto", 100 * i * i, g[i][2])] :
     g \in [1..MaxLinhasDS -> {2022, 2023} \X {BRA, XXX}]}

Integro(t) == [ok |-> TRUE, cols |-> Colunas, rows |-> t]

\* One-row resources that may be unreachable or lack one column.
RecursosCarga ==
    {[ok |-> o, cols |-> c, rows |-> t] :
        o \in BOOLEAN,
        c \in {Colunas} \cup {Colunas \ {x} : x \in Colunas},
        t \in {x \in TabelasGerais : Len(x) = 1}}

InitCom(recursos) ==
    /\ remote \in recursos
    /\ build \in {"estavel", "instavel"}
    /\ fase = "nova"
    /\ fetches = 0
    /\ df = <<>>
    /\ anos_selecionados = {}
    /\ senioridades_selecionadas = {}
    /\ contratos_selecionados = {}
    /\ tamanhos_selecionados = {}
    /\ top_n_cargos = TopNPadrao
    /\ hist_bins = HistBinsPadrao
    /\ df_filtrado = <<>>
    /\ salario_medio = Rat(0, 1)
    /\ salario_maximo = 0
    /\ total_registros = 0
    /\ cargo_mais_frequente = ""
    /\ top_cargos = <<>>
    /\ media_global = <<>>
    /\ df_anim = {}
    /\ rendered = {}
    /\ erro = "nenhum"
    /\ primeira_execucao = <<<<>>, <<>>, {}>>

Init == InitCom({Integro(t) : t \in TabelasGerais})
InitTop == InitCom({Integro(t) : t \in TabelasTop})
InitDS == InitCom({Integro(t) : t \in TabelasDS})
InitCarga == InitCom(RecursosCarga)

Spec == Init /\ [][Next]_vars
SpecTop == InitTop /\ [][Next]_vars
SpecDS == InitDS /\ [][Next]_vars
SpecCarga == InitCarga /\ [][Next]_vars

----------------------------------------------------------------------------
(* Reference definitions for the properties: rows are named by their        *)
(* position in the table, sums run over sets of positions.                  *)

RECURSIVE SomaPos(_, _)
SomaPos(t, I) ==
    IF I = {} THEN 0
    ELSE LET i == CHOOSE j \in I : TRUE IN t[i].usd + SomaPos(t, I \ {i})

MediaPos(t, I) == Rat(SomaPos(t, I), Cardinality(I))

Aceita(r) ==
    /\ r.ano \in anos_selecionados
    /\ r.senioridade \in senioridades_selecionadas
    /\ r.contrato \in contratos_selecionados
    /\ r.tamanho_empresa \in tamanhos_selecionados

Mantidas == {i \in DOMAIN df : Aceita(df[i])}

\* The j-th smallest position of K.
Enesima(K, j) == CHOOSE k \in K : Cardinality({m \in K : m <= k}) = j

TodosSelecionados ==
    /\ anos_selecionados = Unicos(df, "ano")
    /\ senioridades_selecionadas = Unicos(df, "senioridade")
    /\ contratos_selecionados = Unicos(df, "contrato")
    /\ tamanhos_selecionados = Unicos(df, "tamanho_empresa")

AlgumVazio ==
    \/ anos_selecionados = {}
    \/ senioridades_selecionadas = {}
    \/ contratos_selecionados = {}
    \/ tamanhos_selecionados = {}

PosDoCargo(c) == {i \in DOMAIN df_filtrado : df_filtrado[i].cargo = c}
MediaDoCargo(c) == MediaPos(df_filtrado, PosDoCargo(c))
CargosDaVista == {df_filtrado[i].cargo : i \in DOMAIN df_filtrado}
CargosNoTop == {top_cargos[i].cargo : i \in DOMAIN top_cargos}
PrimeiroEncontro(c) == CHOOSE i \in PosDoCargo(c) : \A j \in PosDoCargo(c) : i <= j
Minimo(a, b) == IF a <= b THEN a ELSE b

PosDS == {i \in DOMAIN df_filtrado : df_filtrado[i].cargo = "Data Scientist"}
PosDoAno(a) == {i \in PosDS : df_filtrado[i].ano = a}
PosDoGrupo(a, p) == {i \in PosDoAno(a) : df_filtrado[i].residencia_iso3 = p}
GruposDS == {<<df_filtrado[i].ano, df_filtrado[i].residencia_iso3>> : i \in PosDS}

RECURSIVE SomaDesvios(_)
SomaDesvios(R) ==
    IF R = {} THEN Rat(0, 1)
    ELSE LET r == CHOOSE x \in R : TRUE
             n == Cardinality(PosDoGrupo(r.ano, r.residencia_iso3))
         IN RatAdd(Rat(r.cor.num * n, r.cor.den), SomaDesvios(R \ {r}))

----------------------------------------------------------------------------
(* Properties *)

\* C1: the filtered view is the subsequence of the loaded rows, in their
\* order, holding exactly the rows whose four filter values are each in the
\* selected set of their column; so it is empty when a selected set is empty
\* and is the whole table when every selected set holds all observed values.
C1_FiltroConjuntivo ==
    "titulo" \in rendered =>
        /\ Len(df_filtrado) = Cardinality(Mantidas)
        /\ \A j \in DOMAIN df_filtrado : df_filtrado[j] = df[Enesima(Mantidas, j)]
        /\ AlgumVazio => df_filtrado = <<>>
        /\ TodosSelecionados => df_filtrado = df

\* A view that keeps the first and the third row and drops the second.
C1_Witness ==
    /\ "titulo" \in rendered
    /\ Len(df) >= 3
    /\ Len(df_filtrado) = 2
    /\ df_filtrado[1] = df[1]
    /\ df_filtrado[2] = df[3]

\* C2: the rows of top_cargos are roles of the view with their mean salary,
\* ascending by mean, and no role left out has a mean above any row's.
C2_TopMaximoAscendente ==
    "grafico_top" \in rendered =>
        /\ CargosNoTop \subseteq CargosDaVista
        /\ \A i \in DOMAIN top_cargos :
              RatEq(top_cargos[i].usd, MediaDoCargo(top_cargos[i].cargo))
        /\ \A c \in CargosDaVista \ CargosNoTop : \A i \in DOMAIN top_cargos :
              RatLe(MediaDoCargo(c), top_cargos[i].usd)
        /\ \A i, j \in DOMAIN top_cargos :
              i < j => RatLe(top_cargos[i].usd, top_cargos[j].usd)

\* The slider cuts a role off, and the means in the result differ.
C2_Witness ==
    /\ "grafico_top" \in rendered
    /\ CargosDaVista \ CargosNoTop # {}
    /\ Len(top_cargos) = TopNMin
    /\ RatLt(top_cargos[1].usd, top_cargos[Len(top_cargos)].usd)

\* C3 (as stated): the result has at most N rows and N is at most the number
\* of distinct roles of the view.
C3_Original ==
    "grafico_top" \in rendered =>
        /\ Len(top_cargos) <= top_n_cargos
        /\ top_n_cargos <= Cardinality(CargosDaVista)

\* C3 (amended): the result has min(N, number of distinct roles) rows, one
\* per role, where N is the slider's value between its minimum and maximum.
C3_TamanhoDoTop ==
    "grafico_top" \in rendered =>
        /\ top_n_cargos \in TopNMin..TopNMax
        /\ Len(top_cargos) = Minimo(top_n_cargos, Cardinality(CargosDaVista))
        /\ Cardinality(CargosNoTop) = Len(top_cargos)

\* The slider above the number of roles: every role is in the result.
C3_Witness ==
    /\ "grafico_top" \in rendered
    /\ top_n_cargos > Cardinality(CargosDaVista)
    /\ Len(top_cargos) = Cardinality(CargosDaVista)
    /\ Len(top_cargos) > 1

\* C4: df_anim has one row per (year, country) group of the Data Scientist
\* rows of the view; its mean is the group's, its deviation `cor` is the
\* group's mean minus the mean of all Data Scientist rows of the year, and
\* media_global has an entry for the year.
C4_DesvioDoGrupo ==
    "grafico_pais" \in rendered =>
        /\ {<<r.ano, r.residencia_iso3>> : r \in df_anim} = GruposDS
        /\ Cardinality(df_anim) = Cardinality(GruposDS)
        /\ \A r \in df_anim :
              /\ r.ano \in DOMAIN media_global
              /\ RatEq(media_global[r.ano], MediaPos(df_filtrado, PosDoAno(r.ano)))
              /\ RatEq(r.usd, MediaPos(df_filtrado, PosDoGrupo(r.ano, r.residencia_iso3)))
              /\ RatEq(r.cor,
                       RatSub(MediaPos(df_filtrado, PosDoGrupo(r.ano, r.residencia_iso3)),
                              MediaPos(df_filtrado, PosDoAno(r.ano))))

\* Two years, and a group whose mean is above its year's.
C4_Witness ==
    /\ "grafico_pais" \in rendered
    /\ Cardinality(DOMAIN media_global) = 2
    /\ \E r \in df_anim : r.cor.num > 0
    /\ \E r \in df_anim : r.cor.num < 0

\* C5: within each year, the deviations weighted by the number of rows of
\* their group sum to zero.
C5_DesviosPonderadosNulos ==
    "grafico_pais" \in rendered =>
        \A a \in {r.ano : r \in df_anim} :
            SomaDesvios({r \in df_anim : r.ano = a}).num = 0

\* A year with a group of two rows and a group of one row, of different means.
C5_Witness ==
    /\ "grafico_pais" \in rendered
    /\ \E r, q \in df_anim :
          /\ r.ano = q.ano
          /\ Cardinality(PosDoGrupo(r.ano, r.residencia_iso3)) = 2
          /\ Cardinality(PosDoGrupo(q.ano, q.residencia_iso3)) = 1
          /\ ~RatEq(r.usd, q.usd)

\* C6: with an empty view the metrics are 0, 0, 0 and "" and no chart is
\* produced; with a non-empty view they are the mean, the maximum, the row
\* count and a most frequent role of the view.
C6_MetricasEPadroes ==
    "metricas" \in rendered =>
        /\ df_filtrado = <<>> =>
              /\ salario_medio.num = 0
              /\ salario_maximo = 0
              /\ total_registros = 0
              /\ cargo_mais_frequente = ""
              /\ rendered \cap Graficos = {}
              /\ top_cargos = <<>>
              /\ df_anim = {}
        /\ df_filtrado # <<>> =>
              /\ RatEq(salario_medio, MediaPos(df_filtrado, DOMAIN df_filtrado))
              /\ \E i \in DOMAIN df_filtrado : df_filtrado[i].usd = salario_maximo
              /\ \A i \in DOMAIN df_filtrado : df_filtrado[i].usd <= salario_maximo
              /\ total_registros = Len(df_filtrado)
              /\ cargo_mais_frequente \in CargosDaVista
              /\ \A c \in CargosDaVista :
                    Cardinality(PosDoCargo(c)) <= Cardinality(PosDoCargo(cargo_mais_frequente))

\* A selection that keeps no row of a table that has rows.
C6_Witness ==
    /\ "metricas" \in rendered
    /\ df # <<>>
    /\ df_filtrado = <<>>
    /\ "tabela" \in rendered

\* C7 (as stated): a resource that cannot be read, or lacks a required
\* column, makes the execution fail with no metric, chart or table rendered.
C7_Original ==
    (fase = "ativa" /\ (~remote.ok \/ remote.cols # Colunas)) =>
        /\ erro # "nenhum"
        /\ rendered \cap (Graficos \cup {"metricas", "tabela"}) = {}

\* C8 (as stated): among roles of equal mean, the one met first in the rows
\* is preferred at the cutoff and comes first in the result.
C8_Original ==
    "grafico_top" \in rendered =>
        /\ \A a \in CargosNoTop : \A b \in CargosDaVista \ CargosNoTop :
              RatEq(MediaDoCargo(a), MediaDoCargo(b))
                  => PrimeiroEncontro(a) < PrimeiroEncontro(b)
        /\ \A i, j \in DOMAIN top_cargos :
              (i < j /\ RatEq(top_cargos[i].usd, top_cargos[j].usd))
                  => PrimeiroEncontro(top_cargos[i].cargo)
                        < PrimeiroEncontro(top_cargos[j].cargo)

\* C8 (amended): among roles of equal mean, the one whose name sorts first
\* is preferred at the cutoff; with a stable sort the tied roles of the
\* result are in the sorted order of their names.
C8_EmpatePorNome ==
    "grafico_top" \in rendered =>
        /\ \A a \in CargosNoTop : \A b \in CargosDaVista \ CargosNoTop :
              RatEq(MediaDoCargo(a), MediaDoCargo(b)) => Rank(a) < Rank(b)
        /\ build = "estavel" =>
              \A i, j \in DOMAIN top_cargos :
                  (i < j /\ RatEq(top_cargos[i].usd, top_cargos[j].usd))
                      => Rank(top_cargos[i].cargo) < Rank(top_cargos[j].cargo)

\* A tie across the cutoff that the order of first appearance would have
\* decided the other way.
C8_Witness ==
    /\ "grafico_top" \in rendered
    /\ \E a \in CargosNoTop : \E b \in CargosDaVista \ CargosNoTop :
          /\ RatEq(MediaDoCargo(a), MediaDoCargo(b))
          /\ PrimeiroEncontro(b) < PrimeiroEncontro(a)

\* C9 (as stated): the CSV is read over the network once per session.
C9_Original == fetches <= 1

\* C10: after any history the loaded table is the resource's rows, and the
\* view and both aggregates are those of the loaded table under the current
\* selection and slider value; in particular a history that ends in the
\* selection and slider value of the first execution ends in the first
\* execution's view and aggregates.
C10_SoDependeDoAtual ==
    fase = "ativa" =>
        /\ df = remote.rows
        /\ df_filtrado = Filtrar(df, anos_selecionados, senioridades_selecionadas,
                                 contratos_selecionados, tamanhos_selecionados)
        /\ top_cargos = IF df_filtrado # <<>>
                        THEN TopCargos(df_filtrado, top_n_cargos, build = "estavel")
                        ELSE <<>>
        /\ df_anim = IF DfDs(df_filtrado) # <<>>
                     THEN DfAnim(DfDs(df_filtrado), MediaGlobal(DfDs(df_filtrado)))
                     ELSE {}
        /\ (TodosSelecionados /\ top_n_cargos = TopNPadrao)
              => <<df_filtrado, top_cargos, df_anim>> = primeira_execucao

\* Back at the default selection and sliders after two changes.
C10_Witness ==
    /\ fetches >= 3
    /\ TodosSelecionados
    /\ top_n_cargos = TopNPadrao
    /\ hist_bins = HistBinsPadrao
    /\ Len(df_filtrado) >= 2
    /\ df_anim # {}

====
